---- MODULE Spec2Model ----
(***************************************************************************)
(* Model of the retrieval-augmented answer pipeline of rag-ui's backends:  *)
(*   app.py, deppy.py            POST /chat   (inline pipeline)            *)
(*   flask_main.py, simple_server.py  POST /api/rag (RAGService)           *)
(*                                                                         *)
(* Text is modelled as a sequence of one-character strings wherever the    *)
(* code inspects characters (strip, replace, truthiness); Str turns such a *)
(* sequence into a TLA+ string, so a compiled predicate reads as it does   *)
(* in the program.  Confidence values are in tenths (0.8 is 8).            *)
(***************************************************************************)
EXTENDS Integers, Sequences, FiniteSets, TLC

VARIABLES variant, pc, environ, missing_vars, openai_client, search_client,
          rag_service, req, filter_string, search_log, results, gen_log, sources,
          result_count, response, reply, suspended

vars == <<variant, pc, environ, missing_vars, openai_client, search_client,
          rag_service, req, filter_string, search_log, results, gen_log, sources,
          result_count, response, reply, suspended>>

----------------------------------------------------------------------------
(* Bounds *)

MaxStrLen == 2
MaxListLen == 2
MaxKeys == 2
MaxDocs == 2

----------------------------------------------------------------------------
(* Python text helpers *)

RECURSIVE Str(_)
Str(s) == IF s = <<>> THEN "" ELSE Head(s) \o Str(Tail(s))

IsSpace(c) == c \in {" ", "\n", "\t"}

RECURSIVE LStrip(_)
LStrip(s) == IF s = <<>> THEN <<>>
             ELSE IF IsSpace(Head(s)) THEN LStrip(Tail(s)) ELSE s

RECURSIVE RStrip(_)
RStrip(s) == IF s = <<>> THEN <<>>
             ELSE IF IsSpace(s[Len(s)]) THEN RStrip(SubSeq(s, 1, Len(s) - 1)) ELSE s

Strip(s) == RStrip(LStrip(s))

\* s.replace(chr(39), chr(39) + chr(39))
RECURSIVE ReplaceQuote(_)
ReplaceQuote(s) == IF s = <<>> THEN <<>>
                   ELSE (IF Head(s) = "'" THEN <<"'", "'">> ELSE <<Head(s)>>)
                        \o ReplaceQuote(Tail(s))

\* sep.join(parts) on TLA+ strings
RECURSIVE Join(_, _)
Join(sep, parts) == IF parts = <<>> THEN ""
                    ELSE IF Len(parts) = 1 THEN parts[1]
                    ELSE parts[1] \o sep \o Join(sep, Tail(parts))

Has(s, c) == \E i \in 1..Len(s) : s[i] = c

RECURSIVE EscapeFor(_, _)
EscapeFor(s, q) == IF s = <<>> THEN <<>>
                   ELSE (IF Head(s) = q THEN <<"\\", q>> ELSE <<Head(s)>>)
                        \o EscapeFor(Tail(s), q)

\* repr() of a str: double quotes when the text has ' and no ", else single
ReprStr(s) == IF Has(s, "'") /\ ~Has(s, "\"")
              THEN <<"\"">> \o s \o <<"\"">>
              ELSE <<"'">> \o EscapeFor(s, "'") \o <<"'">>

----------------------------------------------------------------------------
(* JSON values of a request body *)

Absent == [t |-> "absent"]
Null == [t |-> "null"]
StrV(s) == [t |-> "str", s |-> s]
ListV(l) == [t |-> "list", l |-> l]
RangeV(a, b) == [t |-> "range", start |-> a, end |-> b]
MapV(m) == [t |-> "map", m |-> m]

\* bool(value)
Truthy(v) == CASE v.t = "str" -> v.s # <<>>
               [] v.t = "list" -> v.l # <<>>
               [] v.t = "range" -> v.start # Absent \/ v.end # Absent
               [] v.t = "map" -> v.m # <<>>
               [] OTHER -> FALSE

RECURSIVE ReprItems(_)
ReprItems(l) == IF l = <<>> THEN <<>>
                ELSE ReprStr(l[1])
                     \o (IF Len(l) > 1 THEN <<",", " ">> ELSE <<>>)
                     \o ReprItems(Tail(l))

ReprOpt(v) == IF v.t = "str" THEN ReprStr(v.s) ELSE <<"N", "o", "n", "e">>

\* str(value) as characters
PyStr(v) == CASE v.t = "str" -> v.s
              [] v.t = "list" -> <<"[">> \o ReprItems(v.l) \o <<"]">>
              [] v.t = "range" ->
                   <<"{">>
                   \o (IF v.start # Absent
                       THEN <<"'start'", ":", " ">> \o ReprOpt(v.start) ELSE <<>>)
                   \o (IF v.start # Absent /\ v.end # Absent THEN <<",", " ">> ELSE <<>>)
                   \o (IF v.end # Absent
                       THEN <<"'end'", ":", " ">> \o ReprOpt(v.end) ELSE <<>>)
                   \o <<"}">>
              [] OTHER -> <<"N", "o", "n", "e">>

----------------------------------------------------------------------------
(* Filter compiler of /chat (app.py, deppy.py) *)

NoneStr == "<None>"

field_mapping ==
  [k \in {"authors", "file_type", "file_types", "content_type", "extension",
          "language", "topic", "business_unit", "owner_business", "user_group"} |->
     CASE k = "authors" -> "author"
       [] k = "file_type" -> "documentType"
       [] k = "file_types" -> "data_product_type"
       [] k = "content_type" -> "documentType"
       [] k = "business_unit" -> "owner_business_unit"
       [] OTHER -> k]

\* field_mapping.get(key, key)
azure_field(key) == IF key \in DOMAIN field_mapping THEN field_mapping[key] ELSE key

\* if value and str(value).strip()
ChatKeeps(value) == Truthy(value) /\ Strip(PyStr(value)) # <<>>

\* f"{azure_field} eq '{value}'"
ChatClause(key, value) == azure_field(key) \o " eq '" \o Str(PyStr(value)) \o "'"

RECURSIVE filter_conditions(_)
filter_conditions(m) ==
  IF m = <<>> THEN <<>>
  ELSE (IF ChatKeeps(m[1].v) THEN <<ChatClause(m[1].k, m[1].v)>> ELSE <<>>)
       \o filter_conditions(Tail(m))

\* data.get("filters", {})
ChatFilters(f) == IF f = Absent THEN MapV(<<>>) ELSE f

\* filters.items() raises AttributeError unless filters is a mapping
ChatCompileRaises(f) == ChatFilters(f).t # "map"

ChatCompile(f) ==
  LET conds == filter_conditions(ChatFilters(f).m)
  IN IF conds # <<>> THEN Join(" and ", conds) ELSE NoneStr

----------------------------------------------------------------------------
(* Filter compiler of RAGService (services/azure_services.py) *)

RaisedStr == "<raised>"

\* filters.get(key): the value stored under key, None when the key is missing
Lookup(m, key) ==
  IF \E i \in 1..Len(m) : m[i].k = key
  THEN m[CHOOSE i \in 1..Len(m) : m[i].k = key].v
  ELSE Null

\* "for x in value": a str yields its characters, a list its items,
\* a dict its keys
Iterate(v) == CASE v.t = "str" -> [i \in 1..Len(v.s) |-> <<v.s[i]>>]
                [] v.t = "list" -> v.l
                [] v.t = "range" ->
                     (IF v.start # Absent THEN << <<"start">> >> ELSE <<>>)
                     \o (IF v.end # Absent THEN << <<"end">> >> ELSE <<>>)
                [] OTHER -> <<>>

\* f"{field} eq '{x.replace(chr(39), chr(39) + chr(39))}'"
EqClause(field, x) == field \o " eq '" \o Str(ReplaceQuote(x)) \o "'"

\* the "Authors" / "Categories" / "Document IDs" blocks
OrGroup(field, v) ==
  IF Truthy(v) /\ Iterate(v) # <<>>
  THEN << "(" \o Join(" or ", [i \in 1..Len(Iterate(v)) |-> EqClause(field, Iterate(v)[i])]) \o ")" >>
  ELSE <<>>

\* the "Date range" block
DateClauses(v) ==
  IF ~Truthy(v) \/ v.t # "range" THEN <<>>
  ELSE (IF Truthy(v.start)
        THEN << "metadata_storage_last_modified ge " \o Str(v.start.s) \o "T00:00:00Z" >>
        ELSE <<>>)
       \o (IF Truthy(v.end)
           THEN << "metadata_storage_last_modified le " \o Str(v.end.s) \o "T23:59:59Z" >>
           ELSE <<>>)

\* date_range.get(...) raises AttributeError on a str or a list
BuildFilterRaises(f) ==
  /\ Truthy(f)
  /\ Truthy(Lookup(f.m, "date_range"))
  /\ Lookup(f.m, "date_range").t # "range"

build_filter_string(f) ==
  IF ~Truthy(f) THEN ""
  ELSE Join(" and ",
            OrGroup("metadata_author", Lookup(f.m, "authors"))
            \o OrGroup("metadata_storage_content_type", Lookup(f.m, "categories"))
            \o DateClauses(Lookup(f.m, "date_range"))
            \o OrGroup("metadata_storage_path", Lookup(f.m, "document_ids")))

----------------------------------------------------------------------------
(* Request inputs of the filter compilers *)

Alphabet == {"a", "'", " "}

Strs == UNION {[1..n -> Alphabet] : n \in 0..MaxStrLen}

ListElems == {s \in Strs : Len(s) <= 1}

Lists == UNION {[1..n -> ListElems] : n \in 0..MaxListLen}

DateVals == {Absent, StrV(<<>>), StrV(<<"2024-01-01">>)}

Ranges == {RangeV(a, b) : a \in DateVals, b \in DateVals}

FilterKeys == {"authors", "categories", "date_range", "topic", "custom"}

ValuesOf(key) ==
  CASE key = "authors" -> {StrV(s) : s \in Strs} \cup {ListV(l) : l \in Lists} \cup {Null}
    [] key = "categories" -> {ListV(l) : l \in Lists}
    [] key = "date_range" -> Ranges \cup {Null, StrV(<<"a">>)}
    [] OTHER -> {StrV(s) : s \in Strs}

Entries == UNION {{[k |-> key, v |-> val] : val \in ValuesOf(key)} : key \in FilterKeys}

FilterMaps ==
  UNION {{m \in [1..n -> Entries] : \A i, j \in 1..n : i # j => m[i].k # m[j].k}
         : n \in 0..MaxKeys}

FilterInputs == {Absent, Null} \cup {MapV(m) : m \in FilterMaps}

----------------------------------------------------------------------------
(* Deployment: which backend runs, and its start-up *)

Variants == {"app", "deppy", "flask", "simple"}

ChatVariants == {"app", "deppy"}

required_env_vars == {"AZURE_OPENAI_API_KEY", "AZURE_OPENAI_ENDPOINT", "AZURE_DEPLOYMENT_NAME",
                      "AZURE_SEARCH_API_KEY", "AZURE_SEARCH_ENDPOINT"}

\* environments: everything set, or one required variable unset
Environments == {required_env_vars} \cup {required_env_vars \ {x} : x \in required_env_vars}

\* missing_vars = [var for var in required_env_vars if not os.getenv(var)]
MissingVars(env) == required_env_vars \ env

\* settings read with a default: os.getenv(name, default)
optional_env_vars == {"AZURE_SEARCH_INDEX_NAME", "AZURE_OPENAI_DEPLOYMENT_NAME"}

EnvNames == required_env_vars \cup optional_env_vars

\* os.environ over EnvNames; Unset marks a variable that is not set
Unset == "<unset>"

EnvValues == {Unset, "v1", "v2"}

\* the environment in which exactly the variables of env are set
EnvOf(env) == [n \in EnvNames |-> IF n \in env THEN "v1" ELSE Unset]

\* the variables for which os.getenv returns a non-empty value
Present(e) == {n \in EnvNames : e[n] # Unset}

\* os.getenv(name, default)
Getenv(e, name, default) == IF e[name] = Unset THEN default ELSE e[name]

\* the clients constructed without looking at missing_vars
ClientsReadyUnchecked(env, openai_ok, search_ok) == openai_ok /\ search_ok

\* module-level client construction of app.py / deppy.py: both handles or none
ClientsReady(env, openai_ok, search_ok) == MissingVars(env) = {} /\ openai_ok /\ search_ok

\* the except-branch leaving the handle that was already constructed
InitClientsNoReset(env, openai_ok, search_ok) ==
  [openai |-> MissingVars(env) = {} /\ openai_ok,
   search |-> MissingVars(env) = {} /\ openai_ok /\ search_ok]

\* the two handles after start-up: AzureOpenAI(...) then SearchClient(...)
\* inside one try whose except-branch sets both to None
InitClients(env, openai_ok, search_ok) ==
  [openai |-> ClientsReady(env, openai_ok, search_ok),
   search |-> ClientsReady(env, openai_ok, search_ok)]

\* RAGService(): AzureSearchService() then AzureOpenAIService(), each raising
\* on an unset endpoint or key or on a failing client constructor
RagServiceReady(env, openai_ok, search_ok) ==
  /\ {"AZURE_SEARCH_ENDPOINT", "AZURE_SEARCH_API_KEY"} \subseteq env
  /\ search_ok
  /\ {"AZURE_OPENAI_ENDPOINT", "AZURE_OPENAI_API_KEY"} \subseteq env
  /\ openai_ok

\* the settings RAGService() raises without
rag_required_vars == {"AZURE_SEARCH_ENDPOINT", "AZURE_SEARCH_API_KEY",
                      "AZURE_OPENAI_ENDPOINT", "AZURE_OPENAI_API_KEY"}

\* "if not openai_client or not search_client" / "if not rag_service"
ServiceAvailable ==
  IF variant \in ChatVariants THEN openai_client /\ search_client ELSE rag_service

----------------------------------------------------------------------------
(* Policy constants of the code *)

ChatTop == 5
RagTop == 10
ChatTemperature == 2
DefaultTemperature == 7
DefaultMaxTokens == 2000
MinContentLen == 50
PreviewLen == 1500
ConfNone == 1
ConfDegraded == 4
ConfGrounded == 8

----------------------------------------------------------------------------
(* Request bodies *)

ScenarioQuery == <<"d", "i", "v", "i", "d", "e", "n", "d", " ", "p", "o", "l", "i", "c", "y">>

ScenarioAuthor == <<"J", ".", " ", "D", "o", "e">>

Queries == {Absent, Null, StrV(<<>>), StrV(<<" ">>), StrV(ScenarioQuery)}

Entry(key, val) == [k |-> key, v |-> val]

ScenarioFilters == MapV(<<Entry("authors", ListV(<<ScenarioAuthor>>))>>)

\* filter sets sent through the whole pipeline
PipelineFilters ==
  {Absent, Null, MapV(<<>>), ScenarioFilters,
   MapV(<<Entry("authors", StrV(<<" ">>))>>),
   MapV(<<Entry("authors", StrV(<<"a", "'">>))>>),
   MapV(<<Entry("topic", StrV(<<"a">>)), Entry("custom", StrV(<<>>))>>),
   MapV(<<Entry("date_range", StrV(<<"a">>))>>)}

\* a JSON number
NumV(n) == [t |-> "num", n |-> n]

\* generation parameters of a request body: omitted, or 0.9 and 100 tokens
Temperatures == {Absent, NumV(9)}

TokenLimits == {Absent, NumV(100)}

Request(q, f, temperature, max_tokens) ==
  [query |-> q, filters |-> f, temperature |-> temperature, max_tokens |-> max_tokens]

NoRequest == Request(Absent, Absent, Absent, Absent)

\* "if not data": the parsed body is an empty object
DataEmpty(r) == r = NoRequest

\* data.get(key, default) for a number of the body
Param(v, default) == IF v = Absent THEN default ELSE v.n

\* query validation: 400 unless it passes
\*   app.py, deppy.py:  query = data.get("query"); if not query
\*   flask_main.py, simple_server.py:  data.get("query", ""); if not query.strip()
QueryRejected(v, q) ==
  IF v \in ChatVariants THEN ~Truthy(q)
  ELSE q.t # "null" /\ Strip(IF q = Absent THEN <<>> ELSE q.s) = <<>>

\* None.strip() raises AttributeError (flask_main.py, simple_server.py)
QueryRaises(v, q) == v \notin ChatVariants /\ q = Null

----------------------------------------------------------------------------
(* Retrieved documents *)

\* content of a mapped document: lead spaces, body non-space characters,
\* trail spaces
Content(a, b, c) == [lead |-> a, body |-> b, trail |-> c]

ContentLen(c) == c.lead + c.body + c.trail

\* len(content.strip())
StrippedLen(c) == c.body

Min(a, b) == IF a < b THEN a ELSE b

\* content[:n]
Take(c, n) ==
  LET a == Min(c.lead, n)
      b == Min(c.body, n - a)
  IN Content(a, b, Min(c.trail, n - a - b))

\* a chunk one character longer than the excerpt budget
LongChunk == [i \in 1..(PreviewLen + 1) |-> "a"]

ChunkVals(v) ==
  IF v = "app" THEN {Null, StrV(<<>>), StrV(<<" ">>), StrV(<<"a">>), StrV(LongChunk)}
  ELSE IF v = "deppy" THEN {Null, StrV(<<" ">>), StrV(<<"a">>)}
  ELSE {StrV(<<>>)}

\* deppy.py: result.get('summary', result.get('title', ''))
AltVals(v) == IF v = "deppy" THEN {Null, StrV(<<>>), StrV(<<"t">>)} ELSE {StrV(<<>>)}

ContentVals(v) ==
  IF v \in ChatVariants THEN {Content(0, 0, 0)}
  ELSE {Content(0, 0, 0), Content(0, MinContentLen, 0), Content(1, MinContentLen + 1, 1),
        Content(0, PreviewLen + 1, 0)}

DocVals(v) == [chunk : ChunkVals(v), alt : AltVals(v), content : ContentVals(v)]

\* result lists the index can return; a document's id is its rank
DocLists(v) ==
  UNION {{[i \in 1..n |-> [id |-> i, chunk |-> d[i].chunk, alt |-> d[i].alt,
                           content |-> d[i].content]] : d \in [1..n -> DocVals(v)]}
         : n \in 0..MaxDocs}

----------------------------------------------------------------------------
(* Retrieval: the search calls of one request *)

\* the argument set of one search_client.search(**search_args) call
SearchCall(text, vector, select, filter, top) ==
  [search_text |-> text, vector |-> vector, select |-> select, filter |-> filter,
   top |-> top, outcome |-> "pending"]

\* "if filter_string: search_args['filter'] = filter_string"
FilterArg(fs) == IF fs = NoneStr \/ fs = "" THEN NoneStr ELSE fs

\* first attempt: hybrid in app.py, text with a select list elsewhere
PrimarySearch(v, q, fs) ==
  IF v \in ChatVariants
  THEN SearchCall(q, v = "app", TRUE, FilterArg(fs), ChatTop)
  ELSE SearchCall(IF q = <<>> THEN <<"*">> ELSE q, FALSE, TRUE, FilterArg(fs), RagTop)

\* second attempt: app.py keeps the select list, deppy.py drops it
FallbackSearch(v, q, fs) == SearchCall(q, FALSE, v = "app", FilterArg(fs), ChatTop)

\* a retry loop: every failed attempt of /chat issues another search
SearchFailureStepRetrying(v, attempt) ==
  IF v \in ChatVariants THEN "fallback" ELSE "error"

\* what a failed attempt leads to: the except-branch of the first attempt of
\* /chat issues the second search; any other failure ends the request
SearchFailureStep(v, attempt) ==
  IF v \in ChatVariants /\ attempt = 1 THEN "fallback" ELSE "error"

SetOutcome(log, o) == [log EXCEPT ![Len(log)].outcome = o]

----------------------------------------------------------------------------
(* Context assembly *)

\* the text a /chat variant takes from one result
ChatChunk(v, doc) ==
  IF v = "deppy" /\ ~Truthy(doc.chunk) THEN doc.alt ELSE doc.chunk

\* retrieved_context += chunk + "\n" raises TypeError on a null field
ProcessRaises(v, docs) == \E i \in 1..Len(docs) : ChatChunk(v, docs[i]) = Null

RECURSIVE retrieved_context(_, _)
retrieved_context(v, docs) ==
  IF docs = <<>> THEN <<>>
  ELSE ChatChunk(v, docs[1]).s \o <<"\n">> \o retrieved_context(v, Tail(docs))

\* the emptiness test dropped: generation is reached with any context
NoContextNever(ctx) == FALSE

\* "if not retrieved_context.strip()"
NoContext(ctx) == Strip(ctx) = <<>>

Source(doc) == [document_id |-> doc.id]

Sources(docs) == [i \in 1..Len(docs) |-> Source(docs[i])]

\* the emptiness test of the result list dropped
NoDocumentsNever(docs) == FALSE

\* "if not search_result['documents']"
NoDocuments(docs) == docs = <<>>

\* the threshold taken inclusively
SufficientAtLeast(doc) ==
  ContentLen(doc.content) > 0 /\ StrippedLen(doc.content) >= MinContentLen

\* doc["content"] and len(doc["content"].strip()) > 50
Sufficient(doc) == ContentLen(doc.content) > 0 /\ StrippedLen(doc.content) > MinContentLen

documents_with_content(docs) == SelectSeq(docs, Sufficient)

\* doc["content"][:1500] + ("..." if len(doc["content"]) > 1500 else "")
Preview(c) == [text |-> Take(c, PreviewLen), ellipsis |-> ContentLen(c) > PreviewLen]

ContentBlock(i, doc) ==
  [kind |-> "content", n |-> i, id |-> doc.id, preview |-> Preview(doc.content)]

MetadataBlock(i, doc) ==
  [kind |-> "metadata", n |-> i, id |-> doc.id, preview |-> Preview(Content(0, 0, 0))]

\* the blocks joined into the system prompt
RagContext(docs) ==
  LET good == documents_with_content(docs)
  IN IF good # <<>>
     THEN [i \in 1..Len(good) |-> ContentBlock(i, good[i])]
     ELSE [i \in 1..Len(docs) |-> MetadataBlock(i, docs[i])]

RagConfidence(docs) ==
  IF documents_with_content(docs) # <<>> THEN ConfGrounded ELSE ConfDegraded

\* a call of chat.completions.create; max_tokens 0: the argument is not passed
GenCall(ctx, temperature, max_tokens) ==
  [context |-> ctx, temperature |-> temperature, max_tokens |-> max_tokens,
   outcome |-> "pending"]

----------------------------------------------------------------------------
(* Responses *)

Reply(status, kind, has, src, count, conf, fa) ==
  [status |-> status, kind |-> kind, has |-> has, sources |-> src,
   result_count |-> count, confidence |-> conf, filters_applied |-> fa]

NoResponse == Reply(0, "none", {}, <<>>, 0, 0, NoneStr)

Unavailable == Reply(503, "unavailable", {}, <<>>, 0, 0, NoneStr)

BadRequest == Reply(400, "invalid", {}, <<>>, 0, 0, NoneStr)

\* the generic except-branch of a handler
ServerError == Reply(500, "error", {}, <<>>, 0, 0, NoneStr)

\* deppy.py: both searches failed
SearchError(fs) == Reply(500, "search_error", {"filter_applied"}, <<>>, 0, 0, fs)

\* deppy.py: iterating the results failed
ProcessError == Reply(500, "process_error", {}, <<>>, 0, 0, NoneStr)

\* deppy.py: the generation call failed
GenerationError(src, count) ==
  Reply(500, "generation_error", {"sources", "result_count"}, src, count, 0, NoneStr)

\* the canned answer counting a retrieved document although it lists none
ChatCannedCounted ==
  Reply(200, "canned", {"sources", "result_count"}, <<>>, 1, 0, NoneStr)

\* /chat: the canned no-relevant-information answer
ChatCanned == Reply(200, "canned", {"sources", "result_count"}, <<>>, 0, 0, NoneStr)

ChatAnswer(src, count, fs) ==
  Reply(200, "answer", {"sources", "result_count", "filters_applied"}, src, count, 0, fs)

\* process_query: the canned answer
RagCanned == Reply(200, "canned", {"sources", "confidence"}, <<>>, 0, ConfNone, NoneStr)

RagAnswer(src, conf) == Reply(200, "answer", {"sources", "confidence"}, src, 0, conf, NoneStr)

----------------------------------------------------------------------------
(* GET endpoints: /health, /filters and /api/facets, /api/config *)

\* an outbound call made while a GET request is served, with its outcome
Call(service, op, ok) == [service |-> service, op |-> op, ok |-> ok]

EndpointReply(endpoint, status, body, calls) ==
  [endpoint |-> endpoint, status |-> status, body |-> body, calls |-> calls]

NoReply == EndpointReply("none", 0, [has |-> {}], <<>>)

HealthBody(status, search, openai, errors) ==
  [status |-> status, services |-> [search |-> search, openai |-> openai], errors |-> errors]

\* app.py, deppy.py: health_check reads the start-up state, no call is made
ChatHealth ==
  IF missing_vars # {} \/ ~openai_client \/ ~search_client
  THEN EndpointReply("health", 503,
                     HealthBody("unhealthy", search_client, openai_client, <<>>), <<>>)
  ELSE EndpointReply("health", 200,
                     HealthBody("healthy", search_client, openai_client, <<>>), <<>>)

\* the generation flag left false after a failed search probe
test_connection_dependent(search_ok, openai_ok) ==
  [search |-> search_ok,
   openai |-> search_ok /\ openai_ok,
   errors |-> IF ~search_ok THEN <<"Search">>
              ELSE IF openai_ok THEN <<>> ELSE <<"OpenAI">>]

\* RAGService.test_connection: the search probe, then the generation probe
test_connection(search_ok, openai_ok) ==
  [search |-> search_ok,
   openai |-> openai_ok,
   errors |-> (IF search_ok THEN <<>> ELSE <<"Search">>)
              \o (IF openai_ok THEN <<>> ELSE <<"OpenAI">>)]

TestCalls(search_ok, openai_ok) ==
  <<Call("search", "probe", search_ok), Call("openai", "probe", openai_ok)>>

\* flask_main.py health_check, simple_server.py _handle_health: the reply after
\* test_connection carries no status code of its own
RagHealth(search_ok, openai_ok) ==
  IF ~rag_service
  THEN EndpointReply("health", 503,
                     HealthBody("unhealthy", FALSE, FALSE, <<"RAG service not initialized">>),
                     <<>>)
  ELSE LET health_status == test_connection(search_ok, openai_ok)
       IN  EndpointReply("health", 200,
                         HealthBody(IF health_status.search /\ health_status.openai
                                    THEN "healthy" ELSE "unhealthy",
                                    health_status.search, health_status.openai,
                                    health_status.errors),
                         TestCalls(search_ok, openai_ok))

\* number of index fields get_filter_options asks facets for, one search each
NumFacetFields == 9

\* author values the index can hold
IndexAuthors == {<<>>, <<"J. Doe">>}

\* a facet payload: its keys and, of its values, the authors
FacetBody(has, authors) == [has |-> has, authors |-> authors]

MockUnconfigured ==
  FacetBody({"authors", "file_types", "note"}, <<"Sample Author 1", "Sample Author 2">>)

MockError == FacetBody({"authors", "file_types", "error", "note"}, <<"Sample Author">>)

\* the per-field facet searches: all of them, or up to the one that raises
FacetCalls(failed) ==
  [i \in 1..(IF failed = 0 THEN NumFacetFields ELSE failed) |->
     Call("search", "facet", i # failed)]

\* app.py, deppy.py: get_filter_options; failed is the field whose facet
\* search raises (0: none), sample_ok the outcome of the fallback sampling
get_filter_options(failed, sample_ok, authors) ==
  IF ~search_client
  THEN EndpointReply("facets", 200, MockUnconfigured, <<>>)
  ELSE IF failed = 0
  THEN EndpointReply("facets", 200,
                     FacetBody({"authors", "file_types", "document_types", "languages",
                                "topics", "business_units", "owner_business",
                                "user_groups", "extensions", "data_product_types"},
                               authors),
                     FacetCalls(failed))
  ELSE IF sample_ok
  THEN EndpointReply("facets", 200,
                     FacetBody({"authors", "topics", "languages", "file_types"}, authors),
                     Append(FacetCalls(failed), Call("search", "sample", TRUE)))
  ELSE EndpointReply("facets", 200, MockError,
                     Append(FacetCalls(failed), Call("search", "sample", FALSE)))

\* RAGService.get_available_facets: one faceted search, empty lists when it raises
get_available_facets(search_ok, authors) ==
  FacetBody({"authors", "categories", "document_types"},
            IF search_ok THEN authors ELSE <<>>)

\* flask_main.py get_available_facets, simple_server.py _handle_get_facets
RagFacets(search_ok, authors) ==
  IF ~rag_service
  THEN EndpointReply("facets", 503, FacetBody({"detail"}, <<>>), <<>>)
  ELSE EndpointReply("facets", 200, get_available_facets(search_ok, authors),
                     <<Call("search", "facet", search_ok)>>)

\* JSON values of the configuration report
BoolV(b) == [t |-> "bool", b |-> b]

TextV(s) == [t |-> "text", s |-> s]

\* flask_main.py get_config, simple_server.py _handle_config
get_config(e) ==
  [openai_endpoint |-> BoolV(e["AZURE_OPENAI_ENDPOINT"] # Unset),
   openai_key      |-> BoolV(e["AZURE_OPENAI_API_KEY"] # Unset),
   search_endpoint |-> BoolV(e["AZURE_SEARCH_ENDPOINT"] # Unset),
   search_key      |-> BoolV(e["AZURE_SEARCH_API_KEY"] # Unset),
   index_name      |-> TextV(Getenv(e, "AZURE_SEARCH_INDEX_NAME", "documents")),
   deployment_name |-> TextV(Getenv(e, "AZURE_OPENAI_DEPLOYMENT_NAME", "gpt-4"))]

----------------------------------------------------------------------------
(* State machine of one backend process serving chat requests *)

\* the request-scoped state of a handler that has not started
IdleLocals ==
  [pc |-> "idle", req |-> NoRequest, filter_string |-> NoneStr, search_log |-> <<>>,
   results |-> <<>>, gen_log |-> <<>>, sources |-> <<>>, result_count |-> 0,
   response |-> NoResponse, reply |-> NoReply]

Idle ==
  /\ pc = "idle"
  /\ req = NoRequest
  /\ filter_string = NoneStr
  /\ search_log = <<>>
  /\ results = <<>>
  /\ gen_log = <<>>
  /\ sources = <<>>
  /\ result_count = 0
  /\ response = NoResponse
  /\ reply = NoReply
  /\ suspended = IdleLocals

Init ==
  /\ \E v \in Variants, env \in Environments, openai_ok \in BOOLEAN, search_ok \in BOOLEAN :
       /\ variant = v
       /\ environ = EnvOf(env)
       /\ missing_vars = IF v \in ChatVariants THEN MissingVars(env) ELSE {}
       /\ openai_client = (v \in ChatVariants /\ InitClients(env, openai_ok, search_ok).openai)
       /\ search_client = (v \in ChatVariants /\ InitClients(env, openai_ok, search_ok).search)
       /\ rag_service = (v \notin ChatVariants /\ RagServiceReady(env, openai_ok, search_ok))
  /\ Idle

Respond(r) ==
  /\ response' = r
  /\ pc' = "done"

\* the handler up to its first search call: availability check, body and
\* query validation, filter compilation, first search issued
Chat(q, f, temperature, max_tokens) ==
  /\ pc = "idle"
  /\ req' = Request(q, f, temperature, max_tokens)
  /\ UNCHANGED <<variant, environ, missing_vars, openai_client, search_client, rag_service,
                 suspended, reply, results, gen_log, sources, result_count>>
  /\ IF ~ServiceAvailable
     THEN Respond(Unavailable) /\ UNCHANGED <<filter_string, search_log>>
     ELSE IF variant \in {"app", "flask"} /\ DataEmpty(req')
     THEN Respond(BadRequest) /\ UNCHANGED <<filter_string, search_log>>
     ELSE IF QueryRaises(variant, q)
     THEN Respond(ServerError) /\ UNCHANGED <<filter_string, search_log>>
     ELSE IF QueryRejected(variant, q)
     THEN Respond(BadRequest) /\ UNCHANGED <<filter_string, search_log>>
     ELSE IF variant \in ChatVariants
     THEN IF ChatCompileRaises(f)
          THEN Respond(ServerError) /\ UNCHANGED <<filter_string, search_log>>
          ELSE /\ filter_string' = ChatCompile(f)
               /\ search_log' = <<PrimarySearch(variant, q.s, filter_string')>>
               /\ pc' = "search"
               /\ UNCHANGED response
     ELSE IF BuildFilterRaises(ChatFilters(f))
          THEN Respond(ServerError) /\ UNCHANGED <<filter_string, search_log>>
          ELSE /\ filter_string' = build_filter_string(ChatFilters(f))
               /\ search_log' = <<PrimarySearch(variant, q.s, filter_string')>>
               /\ pc' = "search"
               /\ UNCHANGED response

\* the failure of the search swallowed: generation goes ahead without results
SearchFailsSwallowed ==
  /\ pc = "search"
  /\ search_log' = SetOutcome(search_log, "fail")
  /\ gen_log' = Append(gen_log, GenCall(<<>>, ChatTemperature, 0))
  /\ pc' = "generate"
  /\ UNCHANGED <<variant, environ, missing_vars, openai_client, search_client, rag_service,
                 suspended, reply, req, filter_string, results, sources, result_count, response>>

\* the pending search call raises
SearchFails ==
  /\ pc = "search"
  /\ UNCHANGED <<variant, environ, missing_vars, openai_client, search_client, rag_service,
                 suspended, reply, req, filter_string, results, gen_log, sources, result_count>>
  /\ IF SearchFailureStep(variant, Len(search_log)) = "fallback"
     THEN /\ search_log' = Append(SetOutcome(search_log, "fail"),
                                  FallbackSearch(variant, req.query.s, filter_string))
          /\ UNCHANGED <<pc, response>>
     ELSE /\ search_log' = SetOutcome(search_log, "fail")
          /\ Respond(IF variant = "deppy" THEN SearchError(filter_string) ELSE ServerError)

\* index of the first result whose text is null, 0 when there is none
FirstRaising(v, docs) ==
  IF ProcessRaises(v, docs)
  THEN CHOOSE i \in 1..Len(docs) :
         /\ ChatChunk(v, docs[i]) = Null
         /\ \A j \in 1..(i - 1) : ChatChunk(v, docs[j]) # Null
  ELSE 0

\* the pending search call returns docs; the handler assembles the context
\* and either answers at once or issues the generation call
SearchSucceeds(docs) ==
  /\ pc = "search"
  /\ search_log' = SetOutcome(search_log, "ok")
  /\ results' = docs
  /\ UNCHANGED <<variant, environ, missing_vars, openai_client, search_client, rag_service,
                 suspended, reply, req, filter_string>>
  /\ IF variant \in ChatVariants
     THEN IF ProcessRaises(variant, docs)
          THEN /\ sources' = Sources(SubSeq(docs, 1, FirstRaising(variant, docs) - 1))
               /\ result_count' = FirstRaising(variant, docs) - 1
               /\ Respond(IF variant = "deppy" THEN ProcessError ELSE ServerError)
               /\ UNCHANGED gen_log
          ELSE /\ sources' = Sources(docs)
               /\ result_count' = Len(docs)
               /\ IF NoContext(retrieved_context(variant, docs))
                  THEN Respond(ChatCanned) /\ UNCHANGED gen_log
                  ELSE /\ gen_log' = Append(gen_log,
                                            GenCall(retrieved_context(variant, docs),
                                                    ChatTemperature, 0))
                       /\ pc' = "generate"
                       /\ UNCHANGED response
     ELSE /\ UNCHANGED <<sources, result_count>>
          /\ IF NoDocuments(docs)
             THEN Respond(RagCanned) /\ UNCHANGED gen_log
             ELSE /\ gen_log' = Append(gen_log,
                                       GenCall(RagContext(docs),
                                               Param(req.temperature, DefaultTemperature),
                                               Param(req.max_tokens, DefaultMaxTokens)))
                  /\ pc' = "generate"
                  /\ UNCHANGED response

\* the generation call returns (ok) or raises (~ok); the handler shapes the response
GenerationReturns(ok) ==
  /\ pc = "generate"
  /\ UNCHANGED <<variant, environ, missing_vars, openai_client, search_client, rag_service,
                 suspended, reply, req, filter_string, search_log, results, result_count>>
  /\ gen_log' = SetOutcome(gen_log, IF ok THEN "ok" ELSE "fail")
  /\ IF variant \in ChatVariants
     THEN /\ UNCHANGED sources
          /\ Respond(IF ok THEN ChatAnswer(sources, result_count, filter_string)
                     ELSE IF variant = "deppy" THEN GenerationError(sources, result_count)
                     ELSE ServerError)
     ELSE IF ok
          THEN /\ sources' = Sources(results)
               /\ Respond(RagAnswer(sources', RagConfidence(results)))
          ELSE /\ UNCHANGED sources
               /\ Respond(ServerError)

\* everything a GET handler leaves alone
GetFrame ==
  UNCHANGED <<variant, environ, missing_vars, openai_client, search_client, rag_service,
              req, filter_string, search_log, results, gen_log, sources, result_count,
              response, suspended>>

\* GET /health, the probes' outcomes drawn by the caller
HealthCheck(search_ok, openai_ok) ==
  /\ pc = "idle"
  /\ reply' = IF variant \in ChatVariants THEN ChatHealth
              ELSE RagHealth(search_ok, openai_ok)
  /\ pc' = "replied"
  /\ GetFrame

\* GET /filters (app.py, deppy.py), GET /api/facets (flask_main.py, simple_server.py)
GetFacets(failed, sample_ok, authors) ==
  /\ pc = "idle"
  /\ reply' = IF variant \in ChatVariants
              THEN get_filter_options(failed, sample_ok, authors)
              ELSE RagFacets(failed = 0, authors)
  /\ pc' = "replied"
  /\ GetFrame

\* GET /api/config (flask_main.py, simple_server.py)
GetConfig ==
  /\ pc = "idle"
  /\ variant \notin ChatVariants
  /\ reply' = EndpointReply("config", 200, get_config(environ), <<>>)
  /\ pc' = "replied"
  /\ GetFrame

\* the response is sent; everything request-scoped is discarded
Finish ==
  /\ pc \in {"done", "replied"}
  /\ pc' = "idle"
  /\ req' = NoRequest
  /\ filter_string' = NoneStr
  /\ search_log' = <<>>
  /\ results' = <<>>
  /\ gen_log' = <<>>
  /\ sources' = <<>>
  /\ result_count' = 0
  /\ response' = NoResponse
  /\ reply' = NoReply
  /\ UNCHANGED <<variant, environ, missing_vars, openai_client, search_client, rag_service,
                 suspended>>

Next ==
  \/ \E q \in Queries, f \in PipelineFilters, temperature \in Temperatures,
        max_tokens \in TokenLimits : Chat(q, f, temperature, max_tokens)
  \/ SearchFails
  \/ \E docs \in DocLists(variant) : SearchSucceeds(docs)
  \/ \E ok \in BOOLEAN : GenerationReturns(ok)
  \/ \E search_ok \in BOOLEAN, openai_ok \in BOOLEAN : HealthCheck(search_ok, openai_ok)
  \/ \E failed \in 0..NumFacetFields, sample_ok \in BOOLEAN, authors \in IndexAuthors :
        GetFacets(failed, sample_ok, authors)
  \/ GetConfig
  \/ Finish

Spec == Init /\ [][Next]_vars

----------------------------------------------------------------------------
(* The filter compilers alone, over all bounded filter sets *)

InitFilter ==
  /\ variant \in Variants
  /\ environ = EnvOf(required_env_vars)
  /\ missing_vars = {}
  /\ openai_client = (variant \in ChatVariants)
  /\ search_client = (variant \in ChatVariants)
  /\ rag_service = (variant \notin ChatVariants)
  /\ pc = "compile"
  /\ \E f \in FilterInputs : req = Request(StrV(ScenarioQuery), f, Absent, Absent)
  /\ filter_string = NoneStr
  /\ search_log = <<>>
  /\ results = <<>>
  /\ gen_log = <<>>
  /\ sources = <<>>
  /\ result_count = 0
  /\ response = NoResponse
  /\ reply = NoReply
  /\ suspended = IdleLocals

CompileFilters ==
  /\ pc = "compile"
  /\ pc' = "compiled"
  /\ filter_string' =
       IF variant \in ChatVariants
       THEN (IF ChatCompileRaises(req.filters) THEN RaisedStr ELSE ChatCompile(req.filters))
       ELSE (IF BuildFilterRaises(ChatFilters(req.filters)) THEN RaisedStr
             ELSE build_filter_string(ChatFilters(req.filters)))
  /\ UNCHANGED <<variant, environ, missing_vars, openai_client, search_client, rag_service,
                 suspended, reply, req, search_log, results, gen_log, sources, result_count, response>>

NextFilter == CompileFilters

SpecFilter == InitFilter /\ [][NextFilter]_vars

----------------------------------------------------------------------------
(* The configuration report alone, over all bounded environments *)

InitConfig ==
  /\ variant \in Variants \ ChatVariants
  /\ environ \in [EnvNames -> EnvValues]
  /\ missing_vars = {}
  /\ openai_client = FALSE
  /\ search_client = FALSE
  /\ rag_service = RagServiceReady(Present(environ), TRUE, TRUE)
  /\ Idle

NextConfig ==
  \/ GetConfig
  \/ Finish

SpecConfig == InitConfig /\ [][NextConfig]_vars

----------------------------------------------------------------------------
(* Two requests in flight: the handler's locals of the thread that is not
   running are held in suspended, and Switch hands the processor over *)

\* the backends that serve requests concurrently (simple_server.py runs a
\* plain HTTPServer, one request at a time)
ThreadedVariants == {"app", "deppy", "flask"}

\* the request-scoped state of the running handler
Locals ==
  [pc |-> pc, req |-> req, filter_string |-> filter_string, search_log |-> search_log,
   results |-> results, gen_log |-> gen_log, sources |-> sources,
   result_count |-> result_count, response |-> response, reply |-> reply]

\* filter_string kept in a module-level variable that both requests write
SwitchSharingFilter ==
  /\ suspended' = Locals
  /\ pc' = suspended.pc
  /\ req' = suspended.req
  /\ search_log' = suspended.search_log
  /\ results' = suspended.results
  /\ gen_log' = suspended.gen_log
  /\ sources' = suspended.sources
  /\ result_count' = suspended.result_count
  /\ response' = suspended.response
  /\ reply' = suspended.reply
  /\ UNCHANGED <<variant, environ, missing_vars, openai_client, search_client, rag_service,
                 filter_string>>

\* the other request's handler runs on: every local of a handler is its own,
\* the module-level handles are the only names both read
Switch ==
  /\ suspended' = Locals
  /\ pc' = suspended.pc
  /\ req' = suspended.req
  /\ filter_string' = suspended.filter_string
  /\ search_log' = suspended.search_log
  /\ results' = suspended.results
  /\ gen_log' = suspended.gen_log
  /\ sources' = suspended.sources
  /\ result_count' = suspended.result_count
  /\ response' = suspended.response
  /\ reply' = suspended.reply
  /\ UNCHANGED <<variant, environ, missing_vars, openai_client, search_client, rag_service>>

PairFilters == {Absent, ScenarioFilters}

\* replies of the index to a request of the pair: at most one document
PairDocLists(v) == {docs \in DocLists(v) : Len(docs) <= 1}

InitPair ==
  /\ \E v \in ThreadedVariants, openai_ok \in BOOLEAN, search_ok \in BOOLEAN :
       /\ variant = v
       /\ environ = EnvOf(required_env_vars)
       /\ missing_vars = {}
       /\ openai_client = (v \in ChatVariants
                            /\ InitClients(required_env_vars, openai_ok, search_ok).openai)
       /\ search_client = (v \in ChatVariants
                            /\ InitClients(required_env_vars, openai_ok, search_ok).search)
       /\ rag_service = (v \notin ChatVariants
                          /\ RagServiceReady(required_env_vars, openai_ok, search_ok))
  /\ Idle

NextPair ==
  \/ \E f \in PairFilters : Chat(StrV(ScenarioQuery), f, Absent, Absent)
  \/ SearchFails
  \/ \E docs \in PairDocLists(variant) : SearchSucceeds(docs)
  \/ \E ok \in BOOLEAN : GenerationReturns(ok)
  \/ Finish
  \/ Switch

SpecPair == InitPair /\ [][NextPair]_vars

----------------------------------------------------------------------------
(* Properties *)

InFlight == pc \in {"search", "generate", "done"}

LastSearch == search_log[Len(search_log)]

\* a query that is missing, empty or whitespace-only
QueryBlank(q) == q = Absent \/ (q.t = "str" /\ Strip(q.s) = <<>>)

\* a query that is a string with visible text
QueryUsable(q) == q.t = "str" /\ Strip(q.s) # <<>>

\* the number of results a response conveys
ReportedCount(r) == IF "result_count" \in r.has THEN r.result_count ELSE Len(r.sources)

\* C1: a chat request on an initialised service whose query is missing, empty
\* or whitespace-only is answered 400, and no search call and no generation
\* call is made for it.
C1_BlankQueryRejected ==
  (InFlight /\ ServiceAvailable /\ QueryBlank(req.query))
    => /\ search_log = <<>>
       /\ gen_log = <<>>
       /\ pc = "done"
       /\ response.status = 400

SearchOkEmpty ==
  /\ search_log # <<>>
  /\ LastSearch.outcome = "ok"
  /\ results = <<>>

C3_SingleReducedFallback ==
  (/\ variant \in ChatVariants
   /\ QueryUsable(req.query)
   /\ search_log # <<>>
   /\ search_log[1].outcome = "fail")
    => /\ Len(search_log) = 2
       /\ ~search_log[2].vector
       /\ ~search_log[2].select
       /\ search_log[2].filter = search_log[1].filter
       /\ search_log[2].top = search_log[1].top

\* C4: a chat request issues at most 2 search calls, in every variant and for
\* every outcome of the search service.
C4_AtMostTwoSearches == Len(search_log) <= 2

C4_Witness ==
  /\ pc = "done"
  /\ Len(search_log) = 2
  /\ search_log[1].outcome = "fail"
  /\ search_log[2].outcome = "fail"

BothSearchesFailed ==
  /\ Len(search_log) = 2
  /\ search_log[1].outcome = "fail"
  /\ search_log[2].outcome = "fail"

\* C5: when both search attempts fail the request ends with 500 and no
\* generation call; the canned 200 answer is produced only when a search
\* attempt succeeded and matched nothing.
C5_EmptyOnlyWhenNothingMatched ==
  /\ BothSearchesFailed
       => (pc = "done" /\ response.status = 500 /\ gen_log = <<>>)
  /\ (pc = "done" /\ QueryUsable(req.query) /\ response.status = 200
        /\ response.kind = "canned")
       => SearchOkEmpty

SingleScalar(f) ==
  /\ f.t = "map"
  /\ Len(f.m) = 1
  /\ f.m[1].v.t = "str"
  /\ Strip(f.m[1].v.s) # <<>>

\* C6: for a filter set holding a single non-blank scalar v under key k, the
\* /chat compiler yields exactly  field eq 'w'  with field the mapped field
\* of k and w the value with every single quote doubled.
C6_SingleScalarPredicate ==
  (pc = "compiled" /\ variant \in ChatVariants /\ SingleScalar(req.filters))
    => filter_string = azure_field(req.filters.m[1].k) \o " eq '"
                       \o Str(ReplaceQuote(req.filters.m[1].v.s)) \o "'"

\* a value that is empty, or blank after trimming
BlankValue(v) == ~Truthy(v) \/ (v.t = "str" /\ Strip(v.s) = <<>>)

AllBlank(f) == f.t = "map" /\ \A i \in 1..Len(f.m) : BlankValue(f.m[i].v)

\* C7: for a filter set whose values are all empty or blank (the empty
\* mapping included) the compiled predicate is absent (None in /chat, ""
\* in build_filter_string) and the search is issued without a filter.
C7_BlankFiltersNoPredicate ==
  (InFlight /\ search_log # <<>> /\ AllBlank(ChatFilters(req.filters)))
    => /\ filter_string = (IF variant \in ChatVariants THEN NoneStr ELSE "")
       /\ \A i \in 1..Len(search_log) : search_log[i].filter = NoneStr

\* the index field a compiler maps a list-valued key to
ListField(v, key) ==
  IF v \in ChatVariants THEN azure_field(key)
  ELSE IF key = "authors" THEN "metadata_author"
  ELSE IF key = "categories" THEN "metadata_storage_content_type"
  ELSE "metadata_storage_path"

\* ( field eq 'v1' or ... or field eq 'vn' ) with quotes doubled
ExpectedGroup(field, l) ==
  "(" \o Join(" or ", [i \in 1..Len(l) |-> field \o " eq '" \o Str(ReplaceQuote(l[i])) \o "'"])
      \o ")"

\* the entries in the order the compiler visits them
VisitOrder(v, m) ==
  IF v \in ChatVariants THEN m
  ELSE SelectSeq(m, LAMBDA e : e.k = "authors") \o SelectSeq(m, LAMBDA e : e.k = "categories")

AllNonEmptyLists(v, f) ==
  /\ f.t = "map"
  /\ f.m # <<>>
  /\ \A i \in 1..Len(f.m) :
       /\ f.m[i].v.t = "list"
       /\ f.m[i].v.l # <<>>
       /\ (v \notin ChatVariants => f.m[i].k \in {"authors", "categories"})

\* C8: every list-valued filter v1..vn (n >= 1) compiles to one parenthesized
\* group of n equality clauses on the mapped field joined by "or", quotes
\* doubled, and the groups of different keys are joined by "and".
C8_ListGroups ==
  (pc = "compiled" /\ AllNonEmptyLists(variant, req.filters))
    => filter_string =
         Join(" and ", [i \in 1..Len(req.filters.m) |->
                          ExpectedGroup(ListField(variant, VisitOrder(variant, req.filters.m)[i].k),
                                        VisitOrder(variant, req.filters.m)[i].v.l)])

SufficientForVariant(doc) ==
  IF variant \in ChatVariants
  THEN doc.chunk.t = "str" /\ Strip(doc.chunk.s) # <<>>
  ELSE Sufficient(doc)

\* C9: query "dividend policy" with filters {"authors": ["J. Doe"]} and a
\* retrieval of 2 documents with sufficient content: the predicate sent is
\* author eq 'J. Doe', the context is built from both documents, confidence
\* is 0.8, generation is invoked once and the response lists 2 sources.
C9_Scenario ==
  (/\ pc = "done"
   /\ req.query = StrV(ScenarioQuery)
   /\ req.filters = ScenarioFilters
   /\ search_log # <<>>
   /\ LastSearch.outcome = "ok"
   /\ Len(results) = 2
   /\ \A i \in 1..2 : SufficientForVariant(results[i])
   /\ response.status = 200)
    => /\ LastSearch.filter = "author eq 'J. Doe'"
       /\ Len(gen_log) = 1
       /\ (variant \notin ChatVariants => Len(gen_log[1].context) = 2)
       /\ "confidence" \in response.has
       /\ response.confidence = ConfGrounded
       /\ Len(response.sources) = 2

\* C10: for filters that are missing, null or an empty mapping the filter
\* compiler does not raise: it yields the no-filter sentinel and the request
\* proceeds to search instead of ending in an error response.
C10_EmptyFiltersProceed ==
  (/\ InFlight
   /\ ServiceAvailable
   /\ QueryUsable(req.query)
   /\ req.filters \in {Absent, Null, MapV(<<>>)})
    => /\ search_log # <<>>
       /\ filter_string \in {NoneStr, ""}
       /\ search_log[1].filter = NoneStr

\* the documents process_query counts as having content
LongEnough(doc) == StrippedLen(doc.content) > MinContentLen

\* C11: in process_query, whenever at least one retrieved document has more
\* than 50 characters of content after trimming, the context of the generation
\* call holds exactly one content block for each such document and no block
\* for any other document, and the answer reports confidence 0.8.
C11_GroundedBlocks ==
  (/\ variant \notin ChatVariants
   /\ gen_log # <<>>
   /\ \E i \in 1..Len(results) : LongEnough(results[i]))
    => LET ctx == gen_log[1].context
       IN /\ \A i \in 1..Len(results) :
               Cardinality({j \in 1..Len(ctx) : ctx[j].id = results[i].id
                                                 /\ ctx[j].kind = "content"})
                 = IF LongEnough(results[i]) THEN 1 ELSE 0
          /\ \A j \in 1..Len(ctx) : ctx[j].kind = "content"
          /\ Len(ctx) = Cardinality({i \in 1..Len(results) : LongEnough(results[i])})
          /\ (pc = "done" /\ response.status = 200)
               => ("confidence" \in response.has /\ response.confidence = ConfGrounded)

\* an answer over a document above and a document at the threshold
C11_Witness ==
  /\ variant \notin ChatVariants
  /\ pc = "done"
  /\ response.status = 200
  /\ Len(results) = 2
  /\ StrippedLen(results[1].content) = MinContentLen
  /\ LongEnough(results[2])
  /\ Len(gen_log[1].context) = 1
  /\ gen_log[1].context[1].id = results[2].id

\* the text a variant takes as a document's content is a string of at most
\* 50 characters after trimming
ShortContent(v, doc) ==
  IF v \in ChatVariants
  THEN ChatChunk(v, doc) # Null /\ Len(Strip(ChatChunk(v, doc).s)) <= MinContentLen
  ELSE ~LongEnough(doc)

\* C12: for every non-empty retrieved list whose documents all have at most 50
\* characters of content after trimming, generation is invoked exactly once;
\* in process_query its context is one metadata-only block per retrieved
\* document and the reported confidence is 0.4.
C12_DegradedStillGenerates ==
  (/\ pc \in {"generate", "done"}
   /\ QueryUsable(req.query)
   /\ search_log # <<>>
   /\ LastSearch.outcome = "ok"
   /\ results # <<>>
   /\ \A i \in 1..Len(results) : ShortContent(variant, results[i]))
    => /\ Len(gen_log) = 1
       /\ variant \notin ChatVariants
            => /\ Len(gen_log[1].context) = Len(results)
               /\ \A i \in 1..Len(results) :
                    /\ gen_log[1].context[i].kind = "metadata"
                    /\ gen_log[1].context[i].id = results[i].id
               /\ (pc = "done" /\ response.status = 200)
                    => ("confidence" \in response.has
                        /\ response.confidence = ConfDegraded)

\* C13: in every successful chat response the source list has exactly one
\* entry per retrieved document, in retrieval order, whatever the documents'
\* content.
C13_SourcePerDocument ==
  (/\ pc = "done"
   /\ QueryUsable(req.query)
   /\ response.status = 200
   /\ search_log # <<>>
   /\ LastSearch.outcome = "ok")
    => /\ "sources" \in response.has
       /\ Len(response.sources) = Len(results)
       /\ \A i \in 1..Len(results) : response.sources[i].document_id = results[i].id

\* the kind of response a variant gives when retrieval failed
RetrievalErrorKind(v) == IF v = "deppy" THEN "search_error" ELSE "error"

\* C14: when the search returned at least one document and the generation
\* call then fails, the /chat response is a 500 that differs in kind from a
\* retrieval error and carries the sources and result_count already computed.
C14_GenerationErrorKeepsSources ==
  (/\ variant \in ChatVariants
   /\ pc = "done"
   /\ QueryUsable(req.query)
   /\ results # <<>>
   /\ gen_log # <<>>
   /\ gen_log[Len(gen_log)].outcome = "fail")
    => /\ response.status = 500
       /\ response.kind # RetrievalErrorKind(variant)
       /\ {"sources", "result_count"} \subseteq response.has
       /\ Len(response.sources) = Len(results)
       /\ response.result_count = Len(results)

\* both dependencies are available: the handles exist and nothing is missing
\* (app.py, deppy.py); the service exists and every probe succeeded
\* (flask_main.py, simple_server.py)
DependenciesAvailable ==
  IF variant \in ChatVariants
  THEN missing_vars = {} /\ openai_client /\ search_client
  ELSE /\ rag_service
       /\ \A i \in 1..Len(reply.calls) : reply.calls[i].ok

\* C15: GET /health answers 200 only when both the search and the generation
\* dependency are available, and 503 whenever either is unavailable
\* (uninitialised client, missing configuration, failed connection test).
C15_HealthStatus ==
  (pc = "replied" /\ reply.endpoint = "health")
    => reply.status = IF DependenciesAvailable THEN 200 ELSE 503

\* C16: the facet endpoint never answers with an error status: for every
\* state of the search client the status is 200.
C16_FacetsAlways200 ==
  (pc = "replied" /\ reply.endpoint = "facets") => reply.status = 200

\* the facet request was made and failed entirely: the last call of the
\* handler (the faceted search, or the fallback sampling after it) raised
FacetsFailedEntirely ==
  /\ reply.calls # <<>>
  /\ ~reply.calls[Len(reply.calls)].ok

\* C17: when the facet request fails entirely, the payload is the static
\* placeholder value set and carries a note field.
C17_PlaceholderWithNote ==
  (pc = "replied" /\ reply.endpoint = "facets" /\ FacetsFailedEntirely)
    => /\ "note" \in reply.body.has
       /\ reply.body.authors \in {MockError.authors, MockUnconfigured.authors}

\* the settings whose values are endpoints and keys
SecretSettings == {"AZURE_OPENAI_ENDPOINT", "AZURE_OPENAI_API_KEY",
                   "AZURE_SEARCH_ENDPOINT", "AZURE_SEARCH_API_KEY"}

\* e differs from the process environment only in the values of endpoints
\* and keys, and agrees with it on which settings are present
SameButSecrets(e) ==
  /\ Present(e) = Present(environ)
  /\ \A n \in EnvNames \ SecretSettings : e[n] = environ[n]

\* the report does not depend on the values of endpoints and keys
ConfigIndependentOfSecrets ==
  \A e \in [EnvNames -> EnvValues] : SameButSecrets(e) => get_config(e) = reply.body

\* C18: GET /api/config reveals only presence flags: the report is the same
\* for any two environments that agree on which settings are present and
\* differ only in the values of endpoints and keys, and every field of it is
\* a boolean.
C18_OnlyPresenceFlags ==
  (pc = "replied" /\ reply.endpoint = "config")
    => /\ ConfigIndependentOfSecrets
       /\ \A f \in DOMAIN reply.body : reply.body[f].t = "bool"

\* the settings a variant needs at start-up
RequiredFor(v) == IF v \in ChatVariants THEN required_env_vars ELSE rag_required_vars

\* C19: when a required setting is absent at start-up the process runs with
\* the service marked unavailable, and every chat request, whatever its body,
\* is answered 503 without any search or generation call.
C19_MissingSettingUnavailable ==
  (\E n \in RequiredFor(variant) : environ[n] = Unset)
    => /\ ~ServiceAvailable
       /\ InFlight => /\ pc = "done"
                      /\ response.status = 503
                      /\ search_log = <<>>
                      /\ gen_log = <<>>

\* a well-formed request answered 503 because a setting is missing
C19_Witness ==
  /\ \E n \in RequiredFor(variant) : environ[n] = Unset
  /\ pc = "done"
  /\ req.query = StrV(ScenarioQuery)
  /\ req.filters = ScenarioFilters
  /\ response.status = 503

\* C20: temperature and max_tokens supplied in a chat request body reach the
\* generation call unchanged; the defaults 0.7 and 2000 are used only when the
\* request omits them.
C20_GenerationParameters ==
  (gen_log # <<>> /\ QueryUsable(req.query))
    => /\ req.temperature # Absent => gen_log[1].temperature = req.temperature.n
       /\ req.max_tokens # Absent => gen_log[1].max_tokens = req.max_tokens.n
       /\ gen_log[1].temperature = DefaultTemperature => req.temperature = Absent
       /\ gen_log[1].max_tokens = DefaultMaxTokens => req.max_tokens = Absent

\* C21: whenever a chat request ends in a retrieval error (both search
\* attempts failed), the 500 payload carries, with the cause, the filter
\* predicate that was attempted.
C21_RetrievalErrorPayload ==
  (/\ variant \in ChatVariants
   /\ pc = "done"
   /\ QueryUsable(req.query)
   /\ BothSearchesFailed
   /\ filter_string # NoneStr)
    => /\ response.status = 500
       /\ "filter_applied" \in response.has
       /\ response.filters_applied = filter_string

\* the keys a variant's compiler has a rule for
KnownKeys(v) ==
  IF v \in ChatVariants THEN DOMAIN field_mapping
  ELSE {"authors", "categories", "date_range", "document_ids"}

\* a single entry under a key the compiler has no rule for, its value a
\* non-blank string without a quote
UnknownKeyEntry(v, f) ==
  /\ SingleScalar(f)
  /\ f.m[1].k \notin KnownKeys(v)
  /\ ~Has(f.m[1].v.s, "'")

\* C22: a filter entry whose key is not in the field-mapping table and whose
\* value is non-blank compiles to a clause on the key itself; the entry is
\* not dropped from the predicate.
C22_UnknownKeyPassesThrough ==
  (pc = "compiled" /\ UnknownKeyEntry(variant, req.filters))
    => filter_string = req.filters.m[1].k \o " eq '" \o Str(req.filters.m[1].v.s) \o "'"

\* p is a prefix of the content c
IsPrefix(p, c) ==
  /\ p.lead = c.lead \/ (p.lead < c.lead /\ p.body = 0 /\ p.trail = 0)
  /\ p.body = c.body \/ (p.body < c.body /\ p.trail = 0)
  /\ p.trail <= c.trail

\* the excerpt the claim describes, of a text held as characters
Excerpt(s) ==
  IF Len(s) > PreviewLen THEN SubSeq(s, 1, PreviewLen) \o <<".", ".", ".">> ELSE s

RECURSIVE ExcerptContext(_, _)
ExcerptContext(v, docs) ==
  IF docs = <<>> THEN <<>>
  ELSE Excerpt(ChatChunk(v, docs[1]).s) \o <<"\n">> \o ExcerptContext(v, Tail(docs))

\* C23: every per-document excerpt placed in the context of a generation call
\* is the first 1500 characters of the document's content, followed by the
\* ellipsis marker exactly when the content is longer than 1500 characters:
\* no excerpt exceeds 1503 characters and shorter content appears unmodified.
C23_ExcerptBudget ==
  (gen_log # <<>> /\ QueryUsable(req.query))
    => IF variant \in ChatVariants
       THEN gen_log[1].context = ExcerptContext(variant, results)
       ELSE \A j \in 1..Len(gen_log[1].context) :
              LET block == gen_log[1].context[j]
                  c == results[block.id].content
              IN  block.kind = "content"
                    => /\ IsPrefix(block.preview.text, c)
                       /\ ContentLen(block.preview.text) = Min(ContentLen(c), PreviewLen)
                       /\ block.preview.ellipsis = (ContentLen(c) > PreviewLen)
                       /\ ContentLen(block.preview.text)
                            + (IF block.preview.ellipsis THEN 3 ELSE 0) <= PreviewLen + 3
                       /\ ContentLen(c) <= PreviewLen
                            => (block.preview.text = c /\ ~block.preview.ellipsis)

\* C24: within one chat request the steps occur in the order filter compile,
\* search, context assembly, generation, response shaping: the generation
\* model is called at most once, only after a search attempt of the request
\* returned successfully, and once it is called the response is sent only
\* after the call returned or failed.
C24_StepOrder ==
  /\ Len(gen_log) <= 1
  /\ search_log # <<>>
       => /\ \A i \in 1..Len(search_log) : search_log[i].filter = FilterArg(filter_string)
          /\ \A i \in 1..(Len(search_log) - 1) : search_log[i].outcome = "fail"
  /\ pc = "search"
       => (LastSearch.outcome = "pending" /\ gen_log = <<>> /\ response = NoResponse)
  /\ gen_log # <<>> => (search_log # <<>> /\ LastSearch.outcome = "ok")
  /\ pc = "generate" => (gen_log[1].outcome = "pending" /\ response = NoResponse)
  /\ (pc = "done" /\ gen_log # <<>>) => gen_log[1].outcome \in {"ok", "fail"}
  /\ response # NoResponse => pc = "done"

\* a request whose first search failed, whose fallback returned, and whose
\* generation call then failed
C24_Witness ==
  /\ pc = "done"
  /\ Len(search_log) = 2
  /\ search_log[1].outcome = "fail"
  /\ search_log[2].outcome = "ok"
  /\ Len(gen_log) = 1
  /\ gen_log[1].outcome = "fail"
  /\ response.status = 500

\* C25: whenever the generation model is invoked for a chat request the
\* context passed to it is non-empty: at least one document block in
\* process_query, at least one non-whitespace character of retrieved text in
\* /chat.
C25_ContextNonEmpty ==
  gen_log # <<>>
    => IF variant \in ChatVariants
       THEN Strip(gen_log[1].context) # <<>>
       ELSE Len(gen_log[1].context) >= 1

\* /chat about to generate from a blank chunk followed by a chunk with text
C25_Witness ==
  /\ variant = "app"
  /\ pc = "generate"
  /\ Len(results) = 2
  /\ results[1].chunk = StrV(<<" ">>)
  /\ results[2].chunk = StrV(<<"a">>)
  /\ gen_log[1].context = <<" ", "\n", "a", "\n">>

\* C26: a 200 chat response that reports filters_applied reports the filter
\* predicate passed to the search call that produced the results, null
\* exactly when that search had no filter; and every 200 chat response, the
\* canned no-results answer included, reports it.
C26_FiltersApplied ==
  (variant \in ChatVariants /\ pc = "done" /\ QueryUsable(req.query)
     /\ response.status = 200)
    => /\ "filters_applied" \in response.has
            => response.filters_applied = LastSearch.filter
       /\ results = <<>> => "filters_applied" \in response.has

\* C28: in app.py and deppy.py the two client handles are both set or both
\* None in every reachable state, so /health never reports one service true
\* and the other false.
C28_HandlesTogether ==
  variant \in ChatVariants
    => /\ openai_client = search_client
       /\ (pc = "replied" /\ reply.endpoint = "health")
            => reply.body.services.openai = reply.body.services.search

\* /health after a client constructor failed with every variable set
C28_Witness ==
  /\ variant \in ChatVariants
  /\ pc = "replied"
  /\ reply.endpoint = "health"
  /\ missing_vars = {}
  /\ ~openai_client
  /\ ~search_client
  /\ reply.status = 503

\* C29: in every 200 response of /chat, result_count equals the number of
\* entries in sources; when documents were retrieved but their concatenated
\* chunk text is blank, the canned answer is returned with sources [] and
\* result_count 0.
C29_CountMatchesSources ==
  (variant \in ChatVariants /\ pc = "done" /\ response.status = 200)
    => /\ {"sources", "result_count"} \subseteq response.has
       /\ response.result_count = Len(response.sources)
       /\ (results # <<>> /\ Strip(retrieved_context(variant, results)) = <<>>)
            => /\ response.kind = "canned"
               /\ response.sources = <<>>
               /\ response.result_count = 0

\* the canned answer over a retrieved document whose chunk is a space
C29_Witness ==
  /\ variant = "app"
  /\ pc = "done"
  /\ response.status = 200
  /\ response.kind = "canned"
  /\ Len(results) = 1
  /\ results[1].chunk = StrV(<<" ">>)
  /\ result_count = 1

\* the number of flags of a health body that are false
FalseFlags(services) ==
  (IF services.search THEN 0 ELSE 1) + (IF services.openai THEN 0 ELSE 1)

\* C30: test_connection never raises and probes the two services
\* independently: the generation probe is attempted whether or not the search
\* probe failed, each flag is true exactly when its own probe succeeded, and
\* the errors list has one entry per false flag.
C30_IndependentProbes ==
  (pc = "replied" /\ reply.endpoint = "health" /\ variant \notin ChatVariants
     /\ rag_service)
    => /\ reply.status # 500
       /\ Len(reply.calls) = 2
       /\ reply.calls[1].service = "search"
       /\ reply.calls[2].service = "openai"
       /\ reply.body.services.search = reply.calls[1].ok
       /\ reply.body.services.openai = reply.calls[2].ok
       /\ Len(reply.body.errors) = FalseFlags(reply.body.services)

\* the search probe failed and the generation probe succeeded
C30_Witness ==
  /\ pc = "replied"
  /\ reply.endpoint = "health"
  /\ variant \notin ChatVariants
  /\ rag_service
  /\ ~reply.calls[1].ok
  /\ reply.calls[2].ok
  /\ reply.body.services.openai
  /\ reply.body.errors = <<"Search">>

\* the response a request gets when it runs alone: a function of the
\* start-up state, the request body and the replies of the external services
\* recorded in the request's own logs
ResponseAlone(c) ==
  LET q == c.req.query
      f == c.req.filters
      chat == variant \in ChatVariants
      fs == IF chat THEN ChatCompile(f) ELSE build_filter_string(ChatFilters(f))
      search_ok == c.search_log # <<>> /\ c.search_log[Len(c.search_log)].outcome = "ok"
      gen_ok == c.gen_log # <<>> /\ c.gen_log[1].outcome = "ok"
  IN  IF ~ServiceAvailable THEN Unavailable
      ELSE IF variant \in {"app", "flask"} /\ DataEmpty(c.req) THEN BadRequest
      ELSE IF QueryRaises(variant, q) THEN ServerError
      ELSE IF QueryRejected(variant, q) THEN BadRequest
      ELSE IF (IF chat THEN ChatCompileRaises(f) ELSE BuildFilterRaises(ChatFilters(f)))
      THEN ServerError
      ELSE IF ~search_ok
      THEN (IF variant = "deppy" THEN SearchError(fs) ELSE ServerError)
      ELSE IF chat
      THEN IF ProcessRaises(variant, c.results)
           THEN (IF variant = "deppy" THEN ProcessError ELSE ServerError)
           ELSE IF Strip(retrieved_context(variant, c.results)) = <<>> THEN ChatCanned
           ELSE IF gen_ok
           THEN ChatAnswer(Sources(c.results), Len(c.results), fs)
           ELSE IF variant = "deppy"
           THEN GenerationError(Sources(c.results), Len(c.results))
           ELSE ServerError
      ELSE IF c.results = <<>> THEN RagCanned
           ELSE IF gen_ok
           THEN RagAnswer(Sources(c.results), RagConfidence(c.results))
           ELSE ServerError

\* both requests' responses are the ones they would get alone
ResponsesAlone ==
  /\ pc = "done" => response = ResponseAlone(Locals)
  /\ suspended.pc = "done" => suspended.response = ResponseAlone(suspended)

\* C27: for every interleaving of two in-flight requests, each request's
\* response equals the response it would get running alone against the same
\* replies of the external services; the state the requests share (the client
\* handles, rag_service) is written at start-up and by no request handler.
C27_RequestsIndependent ==
  /\ []ResponsesAlone
  /\ [][UNCHANGED <<variant, environ, missing_vars, openai_client, search_client,
                    rag_service>>]_vars

\* two interleaved requests with different filters: one answered, the other
\* waiting for its generation call
C27_Witness ==
  /\ pc = "done"
  /\ response.status = 200
  /\ response.kind = "answer"
  /\ req.filters = ScenarioFilters
  /\ suspended.pc = "generate"
  /\ suspended.req.filters = Absent

====
